---- MODULE Spec2Model ----
\* Model of the answer-extraction / synthesis / citation-assembly pipeline of
\* generate_lit_review.py and combine_answers.py.  Python strings are modelled
\* as sequences of one-character strings, so that concatenation, rfind and
\* slicing are computed character by character as the interpreter does.
EXTENDS Integers, Sequences, FiniteSets, TLC

\* ---------------------------------------------------------------- bounds
MaxPapers == 2
MaxAnswers == 3

\* ------------------------------------------------------ string literals
\* "SOURCE: "  (generate_lit_review.py:146)
MARKER == <<"S","O","U","R","C","E",":"," ">>

\* " SOURCE: " (generate_lit_review.py:123, the text between {answer} and {citation})
SEPARATOR == <<" ","S","O","U","R","C","E",":"," ">>

\* "No answer found." (generate_lit_review.py:86)
default_answer == <<"N","o"," ","a","n","s","w","e","r"," ","f","o","u","n","d",".">>

\* "\n\nReferences:\n" (generate_lit_review.py:59)
REFERENCES_HEADER == <<"\n","\n","R","e","f","e","r","e","n","c","e","s",":","\n">>

\* "resultEnd" (generate_lit_review.py:61)
RESULT_END == <<"r","e","s","u","l","t","E","n","d">>

\* 4080 (combine_answers.py:56)
TOTAL_CONTEXT_BUDGET == 4080

\* ---------------------------------------------------- Python str helpers
\* s[a:b] for 0 <= a <= b <= len(s)
Slice(s, a, b) == SubSeq(s, a + 1, b)

\* sub occurs in s starting at 0-based index k
OccursAt(s, sub, k) ==
    /\ k >= 0
    /\ k + Len(sub) <= Len(s)
    /\ \A j \in 1..Len(sub) : s[k + j] = sub[j]

Occurrences(s, sub) == {k \in 0..Len(s) : OccursAt(s, sub, k)}

Max(S) == CHOOSE x \in S : \A y \in S : y <= x

\* str.rfind: highest index of an occurrence, -1 when there is none
rfind(s, sub) ==
    IF Occurrences(s, sub) = {} THEN -1 ELSE Max(Occurrences(s, sub))

\* str.find: lowest index of an occurrence, -1 when there is none
find(s, sub) ==
    IF Occurrences(s, sub) = {} THEN -1
    ELSE CHOOSE x \in Occurrences(s, sub) : \A y \in Occurrences(s, sub) : x <= y

Contains(s, sub) == Occurrences(s, sub) # {}

Digit(d) == <<"0","1","2","3","4","5","6","7","8","9">>[d + 1]

\* str(n) for n >= 0, as in the f-string {idx + 1}
RECURSIVE str(_)
str(n) == IF n < 10 THEN <<Digit(n)>> ELSE str(n \div 10) \o <<Digit(n % 10)>>

\* sep.join(parts)
RECURSIVE join(_, _)
join(sep, parts) ==
    IF parts = <<>> THEN <<>>
    ELSE IF Len(parts) = 1 THEN parts[1]
    ELSE parts[1] \o sep \o join(sep, Tail(parts))


\* ------------------------------------------------- generate_lit_review.py
\* The response of requests.get: its raw body and what response.json() sees in
\* it (valid: the body parses as JSON; isDict: the JSON value is an object;
\* hasCitations: the object has a "citations" key; citations: that list, each
\* entry with or without a "citation" key).
Entry(has, c) == [hasCitation |-> has, citation |-> c]

Response(text, valid, isDict, hasCitations, citations) ==
    [text |-> text, valid |-> valid, isDict |-> isDict,
     hasCitations |-> hasCitations, citations |-> citations]

Returned(v) == [exc |-> "none", value |-> v]

Raised(e) == [exc |-> e, value |-> <<>>]

\* get_citation_by_doi, from the response on (lines 35-39): only ValueError
\* (the body is not JSON) is caught; a subscript that fails propagates.
get_citation_by_doi(response) ==
    IF ~response.valid THEN Returned(response.text)
    ELSE IF ~response.isDict THEN Raised("TypeError")
    ELSE IF ~response.hasCitations THEN Raised("KeyError")
    ELSE IF Len(response.citations) = 0 THEN Raised("IndexError")
    ELSE IF ~response.citations[1].hasCitation THEN Raised("KeyError")
    ELSE Returned(response.citations[1].citation)

\* Variant: the string of line 121 is the one appended
answer_newline_citation(answer, citation) == answer \o <<"\n">> \o citation

\* f"{answer} SOURCE: {citation}" (line 123)
answer_with_citation(answer, citation) == answer \o SEPARATOR \o citation

\* Variant: the test of line 122 is missing
append_answer_unfiltered(answers, answer, citation) ==
    Append(answers, answer_with_citation(answer, citation))

\* One iteration's effect on the answers list (lines 121-124)
append_answer(answers, answer, citation) ==
    IF answer # default_answer
    THEN Append(answers, answer_with_citation(answer, citation))
    ELSE answers

\* Variant: find in place of rfind
citation_of_first(answer) ==
    LET citation_start == find(answer, MARKER)
    IN  IF citation_start # -1
        THEN <<Slice(answer, citation_start + Len(MARKER), Len(answer))>>
        ELSE <<>>

\* One iteration of extract_citations (lines 146-149)
citation_of(answer) ==
    LET citation_start == rfind(answer, MARKER)
    IN  IF citation_start # -1
        THEN <<Slice(answer, citation_start + Len(MARKER), Len(answer))>>
        ELSE <<>>

\* extract_citations (lines 144-150)
RECURSIVE extract_citations(_)
extract_citations(answers) ==
    IF answers = <<>> THEN <<>>
    ELSE citation_of(Head(answers)) \o extract_citations(Tail(answers))

\* Variant: the references are numbered from 0
reference_line_from_zero(idx, citation) == str(idx) \o <<".", " ">> \o citation

\* f"{idx + 1}. {citation}" (line 57)
reference_line(idx, citation) == str(idx + 1) \o <<".", " ">> \o citation

\* references_list (lines 56-58)
references_list(citations) ==
    join(<<"\n">>, [k \in 1..Len(citations) |-> reference_line(k - 1, citations[k])])

\* The returned document (lines 59-61)
render_review(narrative, citations) ==
    narrative \o REFERENCES_HEADER \o references_list(citations) \o RESULT_END

\* ------------------------------------------------------ combine_answers.py
\* Variant: line 57 is missing
max_tokens_unclamped(input_tokens) == TOTAL_CONTEXT_BUDGET - input_tokens

\* max_tokens (lines 56-57)
max_tokens_for(input_tokens) ==
    LET remaining_tokens == TOTAL_CONTEXT_BUDGET - input_tokens
    IN  IF remaining_tokens >= 0 THEN remaining_tokens ELSE 0


\* max_tokens=150, the default of extract_answers_from_papers
\* (generate_lit_review.py:69)
EXTRACT_MAX_TOKENS == 150

\* ----------------------------------------------------------------- inputs
TXT_EMPTY == <<>>

TXT_AI == <<"A","I">>

\* a completion text that itself holds " SOURCE: "
TXT_WITH_SEPARATOR == <<"x"," ","S","O","U","R","C","E",":"," ","y">>

CIT_LIU == <<"L","i","u">>

\* a citation text that itself holds "SOURCE: "
CIT_WITH_MARKER == <<"W","H","O"," ","S","O","U","R","C","E",":"," ","Z">>

NOT_FOUND == <<"N","o","t"," ","F","o","u","n","d">>

URL_1 == <<"u","1">>

URL_2 == <<"u","2">>

DOI_1 == <<"1","0",".","1","/","x">>

FILE_NAME == <<"f",".","p","d","f">>

\* What openai_call can return: response text after .strip()
\* (autoresearcher.py:50), the empty text included.
CompletionTexts == {TXT_EMPTY, default_answer, TXT_AI, TXT_WITH_SEPARATOR}

\* Narratives the synthesis call can return
Narratives == {TXT_EMPTY, TXT_AI}

\* Values of count_tokens(prompt) (combine_answers.py:54), on both sides of
\* the budget
TokenCounts == {150, 4079, 4080, 4100}

\* Bodies the citation service can answer with
Responses ==
    { Response(<<"o","k","1">>, TRUE, TRUE, TRUE, <<Entry(TRUE, CIT_LIU)>>),
      Response(<<"o","k","2">>, TRUE, TRUE, TRUE,
               <<Entry(TRUE, CIT_WITH_MARKER), Entry(TRUE, CIT_LIU)>>),
      Response(NOT_FOUND, FALSE, FALSE, FALSE, <<>>),
      Response(<<"[","]">>, TRUE, FALSE, FALSE, <<>>),
      Response(<<"{","}">>, TRUE, TRUE, FALSE, <<>>),
      Response(<<"{","c",":","[","]","}">>, TRUE, TRUE, TRUE, <<>>),
      Response(<<"{","c",":","[","{","}","]","}">>, TRUE, TRUE, TRUE,
               <<Entry(FALSE, <<>>)>>) }

\* Elements of the list literature_review iterates over: Paper records
\* (dicts) and, from manualAnswers, plain strings.
Paper(keys, doi, url) ==
    [type |-> "dict", hasExternalIds |-> keys # {"absent"},
     externalIds |-> keys \ {"absent"}, DOI |-> doi, url |-> url, text |-> <<>>]

ManualAnswer(text) ==
    [type |-> "str", hasExternalIds |-> FALSE, externalIds |-> {},
     DOI |-> <<>>, url |-> <<>>, text |-> text]

PaperPool ==
    { Paper({"ArXiv"}, <<>>, URL_1),
      Paper({"DOI", "ArXiv"}, DOI_1, URL_2) }

\* ---------------------------------------------------- get_manual_answers.py
\* a file key of the bucket, as split from urls (get_manual_answers.py:116)
FILE_KEY == <<"d","/","f",".","p","d","f">>

\* file_key.split('/')[-1] (get_manual_answers.py:54)
last_segment(file_key) ==
    Slice(file_key, rfind(file_key, <<"/">>) + 1, Len(file_key))

None == [none |-> TRUE, value |-> <<>>]

Some(v) == [none |-> FALSE, value |-> v]

\* extract_answer_from_abstract, from the completion result on
\* (get_manual_answers.py:107-111)
extract_answer_from_abstract(result) ==
    IF result # default_answer THEN Some(result) ELSE None

\* `if answer:` (get_manual_answers.py:56): neither None nor the empty text
Truthy(answer) == ~answer.none /\ answer.value # <<>>

\* A manually supplied document: its file key and what the completion
\* service answers for its abstract
Document(file_key, result) == [file_key |-> file_key, result |-> result]

\* extract_answer_from_paper (get_manual_answers.py:49-59): the list of
\* strings f"{answer} SOURCE: {citation}", one per document with an answer
RECURSIVE extract_answer_from_paper(_)
extract_answer_from_paper(documents) ==
    IF documents = <<>> THEN <<>>
    ELSE LET document == Head(documents)
             cit == last_segment(document.file_key)
             answer == extract_answer_from_abstract(document.result)
         IN  (IF Truthy(answer)
              THEN <<ManualAnswer(answer_with_citation(answer.value, cit))>>
              ELSE <<>>)
             \o extract_answer_from_paper(Tail(documents))

\* What the caller supplies by hand: no document, or one document whose
\* abstract gives an answer, the sentinel or the empty text
ManualDocuments ==
    {<<>>} \cup {<<Document(FILE_KEY, r)>> : r \in {TXT_AI, default_answer, TXT_EMPTY}}

\* manualAnswers as extract_answers returns it (get_manual_answers.py:114-120,
\* generate_lit_review.py:162)
ManualAnswerLists == {extract_answer_from_paper(d) : d \in ManualDocuments}

SeqsUpTo(S, n) == UNION {[1..k -> S] : k \in 0..n}

\* Answer strings handed to extract_citations on its own
AnswerStrings ==
    { TXT_AI,
      TXT_EMPTY,
      MARKER,
      answer_with_citation(TXT_AI, CIT_LIU),
      answer_with_citation(TXT_WITH_SEPARATOR, CIT_LIU),
      <<"S","O","U","R","C","E",":","n","o">> }

\* ------------------------------------------------------------------ state
VARIABLES
    pc,             \* where the run is
    top_papers,     \* argument of literature_review
    manualAnswers,  \* argument of literature_review
    papers,         \* top_papers + manualAnswers (line 43)
    i,              \* 1-based position of the loop of extract_answers_from_papers
    citation,       \* local of the loop body
    answers,        \* the list the extractor builds
    narrative,      \* what combine_answers returned
    citations,      \* what extract_citations returned
    review,         \* what literature_review returned
    exc,            \* the exception that ended the run, "none" otherwise
    calls,          \* history: the external calls made so far, in order
    built           \* history: for each Answer appended, its paper, text and citation

vars == <<pc, top_papers, manualAnswers, papers, i, citation, answers,
          narrative, citations, review, exc, calls, built>>

Call(op, paper, arg, prompt_tokens, max_tokens, ok, result) ==
    [op |-> op, paper |-> paper, arg |-> arg, prompt_tokens |-> prompt_tokens,
     max_tokens |-> max_tokens, ok |-> ok, result |-> result]

Built(paper, answer, cit) == [paper |-> paper, answer |-> answer, citation |-> cit]

Init ==
    /\ pc = "call"
    /\ top_papers \in SeqsUpTo(PaperPool, MaxPapers)
    /\ manualAnswers \in ManualAnswerLists
    /\ papers = <<>>
    /\ i = 0
    /\ citation = <<>>
    /\ answers = <<>>
    /\ narrative = <<>>
    /\ citations = <<>>
    /\ review = <<>>
    /\ exc = "none"
    /\ calls = <<>>
    /\ built = <<>>

\* After the body for paper i - 1: the next iteration, or the loop is over and
\* extract_answers_from_papers returns (line 128).
AfterPaper(n, all) == IF n <= Len(all) THEN "resolve" ELSE "synthesize"

\* literature_review, lines 43-46 and 85-86
Enter ==
    /\ pc = "call"
    /\ papers' = top_papers \o manualAnswers
    /\ answers' = <<>>
    /\ i' = 1
    /\ pc' = AfterPaper(1, top_papers \o manualAnswers)
    /\ UNCHANGED <<top_papers, manualAnswers, citation, narrative, citations,
                   review, exc, calls, built>>

Raise(e) ==
    /\ pc' = "raised"
    /\ exc' = e

HasDOI(paper) == paper.hasExternalIds /\ "DOI" \in paper.externalIds

\* line 106 on an element that is no dict: str has no attribute get
NotAPaper ==
    /\ pc = "resolve"
    /\ papers[i].type = "str"
    /\ Raise("AttributeError")
    /\ UNCHANGED <<top_papers, manualAnswers, papers, i, citation, answers,
                   narrative, citations, review, calls, built>>

\* lines 108 and 110-111: no DOI, the url is the citation
CitationFromUrl ==
    /\ pc = "resolve"
    /\ papers[i].type = "dict"
    /\ ~HasDOI(papers[i])
    /\ citation' = papers[i].url
    /\ pc' = "complete"
    /\ UNCHANGED <<top_papers, manualAnswers, papers, i, answers, narrative,
                   citations, review, exc, calls, built>>

\* lines 108-109 and 33-34: requests.get raises (no connection)
LookupFails ==
    /\ pc = "resolve"
    /\ papers[i].type = "dict"
    /\ HasDOI(papers[i])
    /\ calls' = Append(calls, Call("lookup", i, papers[i].DOI, 0, 0, FALSE, <<>>))
    /\ Raise("ConnectionError")
    /\ UNCHANGED <<top_papers, manualAnswers, papers, i, citation, answers,
                   narrative, citations, review, built>>

\* lines 108-109 and 33-39: requests.get returns a response
LookupReturns ==
    /\ pc = "resolve"
    /\ papers[i].type = "dict"
    /\ HasDOI(papers[i])
    /\ \E response \in Responses :
        LET r == get_citation_by_doi(response)
        IN  /\ calls' = Append(calls,
                   Call("lookup", i, papers[i].DOI, 0, 0, TRUE, response.text))
            /\ IF r.exc = "none"
               THEN /\ citation' = r.value
                    /\ pc' = "complete"
                    /\ exc' = exc
               ELSE /\ Raise(r.exc)
                    /\ citation' = citation
    /\ UNCHANGED <<top_papers, manualAnswers, papers, i, answers, narrative,
                   citations, review, built>>

\* Variant: a failed completion is swallowed and the loop goes on
CompletionFailsSkipped ==
    /\ pc = "complete"
    /\ calls' = Append(calls,
           Call("completion", i, <<>>, 0, EXTRACT_MAX_TOKENS, FALSE, <<>>))
    /\ i' = i + 1
    /\ pc' = AfterPaper(i + 1, papers)
    /\ UNCHANGED <<top_papers, manualAnswers, papers, citation, answers,
                   narrative, citations, review, exc, built>>

\* lines 112-117: openai_call raises
CompletionFails ==
    /\ pc = "complete"
    /\ calls' = Append(calls,
           Call("completion", i, <<>>, 0, EXTRACT_MAX_TOKENS, FALSE, <<>>))
    /\ Raise("OpenAIError")
    /\ UNCHANGED <<top_papers, manualAnswers, papers, i, citation, answers,
                   narrative, citations, review, built>>

\* lines 112-124: openai_call returns, the answer is kept or dropped
CompletionReturns ==
    /\ pc = "complete"
    /\ \E answer \in CompletionTexts :
        /\ calls' = Append(calls,
               Call("completion", i, <<>>, 0, EXTRACT_MAX_TOKENS, TRUE, answer))
        /\ answers' = append_answer(answers, answer, citation)
        /\ built' = IF Len(append_answer(answers, answer, citation)) > Len(answers)
                    THEN Append(built, Built(i, answer, citation))
                    ELSE built
    /\ i' = i + 1
    /\ pc' = AfterPaper(i + 1, papers)
    /\ UNCHANGED <<top_papers, manualAnswers, papers, citation, narrative,
                   citations, review, exc>>

\* combine_answers, lines 54-60: the synthesis call raises
SynthesisFails ==
    /\ pc = "synthesize"
    /\ \E input_tokens \in TokenCounts :
        calls' = Append(calls,
            Call("synthesis", 0, <<>>, input_tokens,
                 max_tokens_for(input_tokens), FALSE, <<>>))
    /\ Raise("OpenAIError")
    /\ UNCHANGED <<top_papers, manualAnswers, papers, i, citation, answers,
                   narrative, citations, review, built>>

\* combine_answers, lines 54-62, and line 51
SynthesisReturns ==
    /\ pc = "synthesize"
    /\ \E input_tokens \in TokenCounts, text \in Narratives :
        /\ calls' = Append(calls,
               Call("synthesis", 0, <<>>, input_tokens,
                 max_tokens_for(input_tokens), TRUE, text))
        /\ narrative' = text
    /\ pc' = "assemble"
    /\ UNCHANGED <<top_papers, manualAnswers, papers, i, citation, answers,
                   citations, review, exc, built>>

\* literature_review, lines 55-65
Assemble ==
    /\ pc = "assemble"
    /\ citations' = extract_citations(answers)
    /\ review' = render_review(narrative, extract_citations(answers))
    /\ pc' = "returned"
    /\ UNCHANGED <<top_papers, manualAnswers, papers, i, citation, answers,
                   narrative, exc, calls, built>>

Next ==
    \/ Enter
    \/ NotAPaper
    \/ CitationFromUrl
    \/ LookupFails
    \/ LookupReturns
    \/ CompletionFails
    \/ CompletionReturns
    \/ SynthesisFails
    \/ SynthesisReturns
    \/ Assemble

Spec == Init /\ [][Next]_vars


\* ------------------------------------------- extract_citations on its own
\* extract_citations is a pure function of its argument: here it is applied
\* to arbitrary lists of strings, with and without the marker.
InitCit ==
    /\ pc = "citations_call"
    /\ answers \in SeqsUpTo(AnswerStrings, MaxAnswers)
    /\ top_papers = <<>>
    /\ manualAnswers = <<>>
    /\ papers = <<>>
    /\ i = 0
    /\ citation = <<>>
    /\ narrative = <<>>
    /\ citations = <<>>
    /\ review = <<>>
    /\ exc = "none"
    /\ calls = <<>>
    /\ built = <<>>

ExtractCitations ==
    /\ pc = "citations_call"
    /\ citations' = extract_citations(answers)
    /\ pc' = "citations_returned"
    /\ UNCHANGED <<top_papers, manualAnswers, papers, i, citation, answers,
                   narrative, review, exc, calls, built>>

NextCit == ExtractCitations

SpecCit == InitCit /\ [][NextCit]_vars


\* ================================================================ claims
\* extract_answers_from_papers has returned (line 128)
ExtractionReturned == pc \in {"synthesize", "assemble", "returned", "raised"}
                      /\ i = Len(papers) + 1

CompletionCalls(k) ==
    {n \in 1..Len(calls) : calls[n].op = "completion" /\ calls[n].paper = k}

\* the completion result of paper k, once its call has returned
CompletionResult(k) ==
    calls[CHOOSE n \in CompletionCalls(k) : calls[n].ok].result

KeptPapers == {k \in 1..Len(papers) : CompletionResult(k) # default_answer}

\* the text before the last " SOURCE: " of an Answer
LeadingText(a) == Slice(a, 0, rfind(a, SEPARATOR))

\* s starts with prefix
StartsWith(s, prefix) == OccursAt(s, prefix, 0)

\* C1: when extract_answers_from_papers returns, every paper has one completion
\* result; the Answers are, in input order, exactly those of the papers whose
\* result is not "No answer found." (one each, none for the others); each
\* Answer is its paper's result followed by " SOURCE: " and, for a paper
\* without DOI, the paper's url; and no Answer's leading text is the sentinel.
C1_OrderPreservingSubsequence ==
    ExtractionReturned =>
        /\ \A k \in 1..Len(papers) :
               /\ Cardinality(CompletionCalls(k)) = 1
               /\ \A n \in CompletionCalls(k) : calls[n].ok
        /\ Len(answers) = Cardinality(KeptPapers)
        /\ Len(built) = Len(answers)
        /\ {built[j].paper : j \in 1..Len(built)} = KeptPapers
        /\ \A j, m \in 1..Len(built) : j < m => built[j].paper < built[m].paper
        /\ \A j \in 1..Len(answers) :
               LET k == built[j].paper
                   t == CompletionResult(k)
               IN  /\ t # default_answer
                   /\ StartsWith(answers[j], t \o SEPARATOR)
                   /\ ~HasDOI(papers[k]) =>
                          answers[j] = t \o SEPARATOR \o papers[k].url
                   /\ LeadingText(answers[j]) # default_answer

\* C1 witness: two papers, the first discarded, the second kept
C1_Witness ==
    /\ ExtractionReturned
    /\ Len(papers) = 2
    /\ CompletionResult(1) = default_answer
    /\ CompletionResult(2) = TXT_AI
    /\ answers = <<TXT_AI \o SEPARATOR \o papers[2].url>>


\* C2 (as claimed): every Answer of the extractor holds " SOURCE: " and the
\* text before its last occurrence is not empty, whatever the completion
\* service returned, the empty text included.
C2_NonEmptyLeadingText ==
    \A j \in 1..Len(answers) :
        /\ Contains(answers[j], SEPARATOR)
        /\ rfind(answers[j], SEPARATOR) > 0

\* "SOURCE:" without the space that ends the marker
MARKER_WORD == <<"S","O","U","R","C","E",":">>

Suffixes(s) == {Slice(s, k, Len(s)) : k \in 0..Len(s)}

EndsWith(s, suffix) == OccursAt(s, suffix, Len(s) - Len(suffix))

\* what follows the last "SOURCE: " of s, and s itself when it holds none
AfterLastMarker(s) ==
    CHOOSE x \in Suffixes(s) :
        /\ ~Contains(x, MARKER)
        /\ \/ x = s
           \/ EndsWith(s, MARKER \o x)

Marked == {k \in 1..Len(answers) : Contains(answers[k], MARKER)}

Rank(k) == Cardinality({m \in Marked : m <= k})

C5_ResolverNeverRaises ==
    (/\ Len(calls) > 0
     /\ calls[Len(calls)].op = "lookup"
     /\ calls[Len(calls)].ok) => pc # "raised"

SynthesisCalls == {n \in 1..Len(calls) : calls[n].op = "synthesis"}

\* C6: the max_tokens of the synthesis call is 4080 - n when the prompt has
\* n < 4080 tokens, 0 when n >= 4080, and never negative.
C6_MaxTokensClamped ==
    \A n \in SynthesisCalls :
        LET t == calls[n].prompt_tokens
            m == calls[n].max_tokens
        IN  /\ m >= 0
            /\ t < 4080 => m = 4080 - t
            /\ t >= 4080 => m = 0

\* C6 witness: a prompt of 4100 tokens, sent with max_tokens 0
C6_Witness ==
    \E n \in SynthesisCalls :
        calls[n].prompt_tokens = 4100 /\ calls[n].max_tokens = 0

\* C7 (as claimed): when the budget left is zero or negative, combine_answers
\* raises TokenBudgetExhausted in place of calling: no synthesis call is issued
\* with a zero or negative max_tokens.
C7_BudgetExhaustedSurfaced ==
    \A n \in SynthesisCalls : calls[n].max_tokens > 0

\* the numbered lines "n. c", "n+1. c'", ... separated by newlines
RECURSIVE NumberedFrom(_, _)
NumberedFrom(cs, n) ==
    IF cs = <<>> THEN <<>>
    ELSE (IF n > 1 THEN <<"\n">> ELSE <<>>)
         \o <<Digit(n), ".", " ">> \o Head(cs) \o NumberedFrom(Tail(cs), n + 1)

\* C8: the returned review is the narrative of the one synthesis call, then
\* "\n\nReferences:\n", then the lines "i. c_i" of the assembled citations
\* numbered from 1 in assembler order, then "resultEnd"; with no Answers the
\* synthesis call is still made and there are no numbered lines.
C8_ReviewLayout ==
    pc = "returned" =>
        /\ Cardinality(SynthesisCalls) = 1
        /\ \A n \in SynthesisCalls : calls[n].ok /\ calls[n].result = narrative
        /\ citations = extract_citations(answers)
        /\ review = narrative \o REFERENCES_HEADER
                    \o NumberedFrom(citations, 1) \o RESULT_END
        /\ answers = <<>> => review = narrative \o REFERENCES_HEADER \o RESULT_END

\* C8 witness: a returned review with two numbered references
C8_Witness ==
    /\ pc = "returned"
    /\ Len(citations) = 2
    /\ review = narrative \o REFERENCES_HEADER
                \o <<"1", ".", " ">> \o citations[1] \o <<"\n">>
                \o <<"2", ".", " ">> \o citations[2] \o RESULT_END

FailedCompletions ==
    {n \in 1..Len(calls) : calls[n].op = "completion" /\ ~calls[n].ok}

\* C9 (as claimed): a failed completion call for one paper does not abort
\* the batch.
C9_FailureDoesNotAbort ==
    FailedCompletions # {} => pc # "raised"

\* C9 (amended): a failed completion call for one paper aborts the batch: the
\* exception leaves extract_answers_from_papers at that paper, no later paper
\* is processed, no further call is made and nothing is returned.
C9_FailureAbortsBatch ==
    \A n \in FailedCompletions :
        /\ n = Len(calls)
        /\ pc = "raised"
        /\ exc = "OpenAIError"
        /\ i = calls[n].paper
        /\ i <= Len(papers)
        /\ narrative = <<>>
        /\ citations = <<>>
        /\ review = <<>>

\* C9 witness: the call for the first of two papers failed, after which the
\* second paper got no call
C9_Witness ==
    /\ Len(papers) = 2
    /\ FailedCompletions # {}
    /\ \A n \in FailedCompletions : calls[n].paper = 1
    /\ \A n \in 1..Len(calls) : calls[n].paper # 2

\* the calls paper k is due: a lookup if and only if it has a DOI, then one
\* completion
PaperOps(k) ==
    IF HasDOI(papers[k]) THEN << <<"lookup", k>>, <<"completion", k>> >>
    ELSE << <<"completion", k>> >>

\* the calls of a whole run, from paper k on
RECURSIVE ExpectedTrace(_)
ExpectedTrace(k) ==
    IF k > Len(papers) THEN << <<"synthesis", 0>> >>
    ELSE PaperOps(k) \o ExpectedTrace(k + 1)

Ops == [n \in 1..Len(calls) |-> <<calls[n].op, calls[n].paper>>]

IsPrefix(a, b) == Len(a) <= Len(b) /\ a = SubSeq(b, 1, Len(a))

\* the ordering part of C10: the calls made so far are, in order, an initial
\* part of the calls due; a failed call is the last one and nothing is
\* returned after it; a returned review has made all the calls due and
\* assembled the citations from the Answers as they were built
CallsInOrder ==
    /\ IsPrefix(Ops, ExpectedTrace(1))
    /\ \A n \in 1..Len(calls) :
           /\ calls[n].op = "lookup" => calls[n].arg = papers[calls[n].paper].DOI
           /\ ~calls[n].ok => n = Len(calls) /\ pc = "raised" /\ review = <<>>
    /\ pc \in {"assemble", "returned"} => Ops = ExpectedTrace(1)
    /\ pc = "returned" =>
           /\ citations = extract_citations(answers)
           /\ answers = [j \in 1..Len(built) |->
                           built[j].answer \o SEPARATOR \o built[j].citation]

\* C10 (as claimed): over Paper records, the calls of a run are sequential
\* and in input order, one lookup per paper with a DOI and one completion per
\* paper, then one synthesis call, then the assembly; only a failed external
\* call stops the run early.
C10_SequentialTrace ==
    (manualAnswers = <<>> /\ pc # "call") =>
        /\ CallsInOrder
        /\ pc = "raised" => (Len(calls) > 0 /\ ~calls[Len(calls)].ok)

\* the ordering part of C10 alone, which the code keeps
C10_OrderingOnly ==
    (manualAnswers = <<>> /\ pc # "call") => CallsInOrder


\* C11 (as claimed): when a manually supplied document has given an answer,
\* every element handed to extract_answers_from_papers is a Paper record, the
\* run is not ended by the element itself, and the returned reference list
\* holds the document's file name as a citation.
C11_ManualAnswersCited ==
    manualAnswers # <<>> =>
        /\ \A k \in 1..Len(papers) : papers[k].type = "dict"
        /\ exc # "AttributeError"
        /\ pc = "returned" =>
               \E j \in 1..Len(citations) : citations[j] = FILE_NAME

\* what the code does with a manual answer: the loop reaches the string and
\* the run ends there, before any call for it and with nothing returned
C11_ManualAnswerEndsRun ==
    (manualAnswers # <<>> /\ pc \notin {"call", "resolve", "complete"}) =>
        /\ pc = "raised"
        /\ i <= Len(papers)
        /\ review = <<>>

====
